---- MODULE Spec2Model ----
(***************************************************************************)
(* Model of the in-memory user registry of app.py: the validator, the      *)
(* create / delete / list / upload / average-age handlers, and the shared  *)
(* module-level list `users`.                                              *)
(*                                                                         *)
(* Text is a sequence of one-character strings.  A decoded value (a JSON   *)
(* value of a request body, or a cell of the DataFrame read from a CSV)    *)
(* is a record [t, s, n, d]:                                               *)
(*   t = "null"   None or NaN                  (pd.isna is true)           *)
(*   t = "int"    the integer n                                            *)
(*   t = "float"  the float n / d                                          *)
(*   t = "str"    the text s                                               *)
(*   t = "list"   a JSON array of two numbers  (pd.isna gives an array)    *)
(***************************************************************************)
EXTENDS Integers, Sequences, FiniteSets, TLC

VARIABLES users, last, pc, loc, readPartial, interleaved

vars == <<users, last, pc, loc, readPartial, interleaved>>

concVars == <<pc, loc, readPartial, interleaved>>

\* ------------------------------------------------------------------ bounds

\* Rows of one uploaded CSV table.
MaxRows == 3
\* Records of the collections the aggregator is applied to in SpecAvg.
MaxAvgUsers == 3
\* Length of the collection under concurrent dispatch (duplicates can pile up).
MaxConcUsers == 3

\* ------------------------------------------------------------------ text

Whitespace == {" "}
Digits == {"0", "1", "2", "3", "4", "5", "6", "7", "8", "9"}

DigitVal(c) ==
    CASE c = "0" -> 0 [] c = "1" -> 1 [] c = "2" -> 2 [] c = "3" -> 3
      [] c = "4" -> 4 [] c = "5" -> 5 [] c = "6" -> 6 [] c = "7" -> 7
      [] c = "8" -> 8 [] c = "9" -> 9 [] OTHER -> 0

RECURSIVE lstrip(_)
lstrip(s) == IF s # <<>> /\ Head(s) \in Whitespace THEN lstrip(Tail(s)) ELSE s

RECURSIVE rstrip(_)
rstrip(s) ==
    IF s # <<>> /\ s[Len(s)] \in Whitespace
    THEN rstrip(SubSeq(s, 1, Len(s) - 1))
    ELSE s

\* str.strip()
strip(s) == rstrip(lstrip(s))

\* str.upper() on one character of the alphabet in use
upper(c) ==
    CASE c = "a" -> "A" [] c = "b" -> "B" [] c = "l" -> "L"
      [] c = "m" -> "M" [] c = "o" -> "O" [] OTHER -> c

RECURSIVE Pow10(_)
Pow10(k) == IF k = 0 THEN 1 ELSE 10 * Pow10(k - 1)

\* value of a text of digits, read left to right
RECURSIVE DigitsValue(_, _)
DigitsValue(s, acc) ==
    IF s = <<>> THEN acc ELSE DigitsValue(Tail(s), 10 * acc + DigitVal(Head(s)))

AllDigits(s) == \A i \in 1..Len(s) : s[i] \in Digits

DotAt(s) == {i \in 1..Len(s) : s[i] = "."}

\* ------------------------------------------------------------------ values

Null == [t |-> "null", s |-> <<>>, n |-> 0, d |-> 1]
IntV(k) == [t |-> "int", s |-> <<>>, n |-> k, d |-> 1]
FloatV(num, den) == [t |-> "float", s |-> <<>>, n |-> num, d |-> den]
StrV(txt) == [t |-> "str", s |-> txt, n |-> 0, d |-> 1]
ListV == [t |-> "list", s |-> <<>>, n |-> 0, d |-> 1]

\* float() of a text: surrounding whitespace is dropped, then digits with at
\* most one decimal point and at least one digit (the alphabet in use has no
\* sign, exponent or underscore).  [ok, n, d] with value n / d.
FloatOfText(txt) ==
    LET s == strip(txt)
        dots == DotAt(s)
    IN  IF s = <<>> \/ Cardinality(dots) > 1
           \/ (\E i \in 1..Len(s) : s[i] \notin Digits \cup {"."})
           \/ (\A i \in 1..Len(s) : s[i] \notin Digits)
        THEN [ok |-> FALSE, n |-> 0, d |-> 1]
        ELSE IF dots = {}
        THEN [ok |-> TRUE, n |-> DigitsValue(s, 0), d |-> 1]
        ELSE LET p == CHOOSE i \in dots : TRUE
                 whole == SubSeq(s, 1, p - 1)
                 frac == SubSeq(s, p + 1, Len(s))
             IN  [ok |-> TRUE,
                  n |-> DigitsValue(whole \o frac, 0),
                  d |-> Pow10(Len(frac))]

\* int() of a text: surrounding whitespace is dropped, then digits only; a
\* decimal point makes int() raise ValueError.  [ok, n].
IntOfText(txt) ==
    LET s == strip(txt)
    IN  IF s = <<>> \/ ~AllDigits(s)
        THEN [ok |-> FALSE, n |-> 0]
        ELSE [ok |-> TRUE, n |-> DigitsValue(s, 0)]

\* float(age) of the validator: [ok, n, d]; ok = FALSE is ValueError/TypeError
FloatOf(v) ==
    CASE v.t = "int" -> [ok |-> TRUE, n |-> v.n, d |-> 1]
      [] v.t = "float" -> [ok |-> TRUE, n |-> v.n, d |-> v.d]
      [] v.t = "str" -> FloatOfText(v.s)
      [] OTHER -> [ok |-> FALSE, n |-> 0, d |-> 1]

\* int(age) of the handlers, applied to the raw value once it passed the
\* validator: [ok, n]; ok = FALSE is an uncaught ValueError/TypeError
IntOf(v) ==
    CASE v.t = "int" -> [ok |-> TRUE, n |-> v.n]
      [] v.t = "float" -> [ok |-> TRUE, n |-> v.n \div v.d]
      [] v.t = "str" -> IntOfText(v.s)
      [] OTHER -> [ok |-> FALSE, n |-> 0]

\* pd.isna(value) used as a condition: "yes", "no", or "raise" (the truth
\* value of the two-element array pd.isna returns for a list is ambiguous)
isna(v) ==
    CASE v.t = "null" -> "yes"
      [] v.t = "list" -> "raise"
      [] OTHER -> "no"

\* ------------------------------------------------------------------ core

\* user_exists with the comparison made against the newest record only
user_exists_last(us, name) == us # <<>> /\ us[Len(us)].Name = name

\* user_exists(name): any(user['Name'] == name for user in users)
user_exists(us, name) == \E i \in 1..Len(us) : us[i].Name = name

\* validate_user_data(name, age): (is_valid, error), or an exception raised
\* by the condition `if pd.isna(age)`
validate_user_data(name, age) ==
    IF name.t # "str" \/ isna(name) = "yes" \/ strip(name.s) = <<>>
    THEN [is_valid |-> FALSE, error |-> "Name cannot be empty", raised |-> FALSE]
    ELSE IF isna(age) = "raise"
    THEN [is_valid |-> FALSE, error |-> "", raised |-> TRUE]
    ELSE IF isna(age) = "yes"
    THEN [is_valid |-> FALSE, error |-> "Age cannot be empty", raised |-> FALSE]
    ELSE IF ~FloatOf(age).ok
    THEN [is_valid |-> FALSE, error |-> "Age must be a number", raised |-> FALSE]
    ELSE IF FloatOf(age).n % FloatOf(age).d # 0
    THEN [is_valid |-> FALSE, error |-> "Age must be an integer", raised |-> FALSE]
    ELSE IF FloatOf(age).n \div FloatOf(age).d <= 0
            \/ FloatOf(age).n \div FloatOf(age).d > 120
    THEN [is_valid |-> FALSE, error |-> "Age must be between 1 and 120",
          raised |-> FALSE]
    ELSE [is_valid |-> TRUE, error |-> "", raised |-> FALSE]

\* The outcome of a request: the collection afterwards, the HTTP status (500
\* for an exception no handler catches) and the parts of the response body.
Outcome(us, status, error) ==
    [users |-> us, status |-> status, error |-> error,
     added |-> <<>>, invalid |-> <<>>, avg |-> {}, data |-> <<>>, count |-> 0]

NoData == [present |-> FALSE, Name |-> Null, Age |-> Null]
Body(name, age) == [present |-> TRUE, Name |-> name, Age |-> age]

\* create_user with the duplicate check made on the name as sent, before it
\* is trimmed
create_user_rawdup(us, data) ==
    IF ~data.present
    THEN Outcome(us, 400, "Name and age are required")
    ELSE LET v == validate_user_data(data.Name, data.Age)
             name == strip(data.Name.s)
             age == IntOf(data.Age)
         IN  IF v.raised THEN Outcome(us, 500, "")
             ELSE IF ~v.is_valid THEN Outcome(us, 400, v.error)
             ELSE IF ~age.ok THEN Outcome(us, 500, "")
             ELSE IF user_exists(us, data.Name.s)
             THEN Outcome(us, 400, "User already exists")
             ELSE [Outcome(Append(us, [Name |-> name, Age |-> age.n]), 201, "")
                     EXCEPT !.added = <<[Name |-> name, Age |-> age.n]>>]

\* create_user(): POST /users
create_user(us, data) ==
    IF ~data.present
    THEN Outcome(us, 400, "Name and age are required")
    ELSE LET v == validate_user_data(data.Name, data.Age)
             name == strip(data.Name.s)
             age == IntOf(data.Age)
         IN  IF v.raised THEN Outcome(us, 500, "")
             ELSE IF ~v.is_valid THEN Outcome(us, 400, v.error)
             ELSE IF ~age.ok THEN Outcome(us, 500, "")
             ELSE IF user_exists(us, name)
             THEN Outcome(us, 400, "User already exists")
             ELSE [Outcome(Append(us, [Name |-> name, Age |-> age.n]), 201, "")
                     EXCEPT !.added = <<[Name |-> name, Age |-> age.n]>>]

\* the index of the first record whose Name equals name, 0 if there is none
FirstIndex(us, name) ==
    IF user_exists(us, name)
    THEN CHOOSE i \in 1..Len(us) :
            /\ us[i].Name = name
            /\ \A j \in 1..(i - 1) : us[j].Name # name
    ELSE 0

\* list.remove(x): drops the first element equal to x
ListRemove(us, x) ==
    LET k == CHOOSE i \in 1..Len(us) :
                /\ us[i] = x
                /\ \A j \in 1..(i - 1) : us[j] # x
    IN  SubSeq(us, 1, k - 1) \o SubSeq(us, k + 1, Len(us))

\* delete_user with the path segment trimmed before the lookup
delete_user_strip(us, name) ==
    LET i == FirstIndex(us, strip(name))
    IN  IF i = 0
        THEN Outcome(us, 404, "User not found")
        ELSE Outcome(ListRemove(us, us[i]), 200, "")

\* delete_user(name): DELETE /users/<name>
delete_user(us, name) ==
    LET i == FirstIndex(us, name)
    IN  IF i = 0
        THEN Outcome(us, 404, "User not found")
        ELSE Outcome(ListRemove(us, us[i]), 200, "")

\* get_users(): GET /users
get_users(us) ==
    [Outcome(us, 200, "") EXCEPT !.data = us, !.count = Len(us)]

\* ------------------------------------------------------------------ CSV

\* One column as pd.read_csv types it.  An empty field is NaN.  A column
\* whose fields are all integer literals is int64; one whose non-empty
\* fields all parse as numbers is float64; any other column is an object
\* column holding the fields as text.
InferColumn(cells) ==
    LET filled == {i \in 1..Len(cells) : cells[i] # <<>>}
    IN  IF filled = 1..Len(cells) /\ \A i \in filled : AllDigits(cells[i])
        THEN [i \in 1..Len(cells) |-> IntV(DigitsValue(cells[i], 0))]
        ELSE IF \A i \in filled : FloatOfText(cells[i]).ok
        THEN [i \in 1..Len(cells) |->
                IF i \in filled
                THEN FloatV(FloatOfText(cells[i]).n, FloatOfText(cells[i]).d)
                ELSE Null]
        ELSE [i \in 1..Len(cells) |->
                IF i \in filled THEN StrV(cells[i]) ELSE Null]

\* df.to_dict('records') restricted to the two columns the loop reads
to_records(table) ==
    LET names == InferColumn([i \in 1..Len(table) |-> table[i].Name])
        ages == InferColumn([i \in 1..Len(table) |-> table[i].Age])
    IN  [i \in 1..Len(table) |-> [Name |-> names[i], Age |-> ages[i]]]

InvalidRow(idx, error, name) == [row |-> idx + 2, error |-> error, name |-> name]

\* The loop of upload_users over enumerate(new_users), from 0-based index idx
\* on.  acc = [users, added, invalid, raised]; an exception leaves the loop
\* with what was appended so far.
RECURSIVE upload_loop(_, _, _)
upload_loop(recs, idx, acc) ==
    IF idx >= Len(recs) THEN acc
    ELSE LET user == recs[idx + 1]
             v == validate_user_data(user.Name, user.Age)
             name == strip(user.Name.s)
             age == IntOf(user.Age)
             valid_user == [Name |-> name, Age |-> age.n]
         IN  IF v.raised THEN [acc EXCEPT !.raised = TRUE]
             ELSE IF ~v.is_valid
             THEN upload_loop(recs, idx + 1,
                    [acc EXCEPT !.invalid = Append(@, InvalidRow(idx, v.error, <<>>))])
             ELSE IF ~age.ok THEN [acc EXCEPT !.raised = TRUE]
             ELSE IF user_exists(acc.users, name)
             THEN upload_loop(recs, idx + 1,
                    [acc EXCEPT !.invalid =
                        Append(@, InvalidRow(idx, "User already exists", name))])
             ELSE upload_loop(recs, idx + 1,
                    [acc EXCEPT !.users = Append(@, valid_user),
                                !.added = Append(@, valid_user)])

\* upload_users asking for any of the two columns instead of both
upload_users_anycol(us, file, hasName, hasAge, table) ==
    IF file = "none" THEN Outcome(us, 400, "No file provided")
    ELSE IF file = "noname" THEN Outcome(us, 400, "No file selected")
    ELSE IF file = "notcsv" THEN Outcome(us, 400, "File must be a CSV")
    ELSE IF file = "unparseable" THEN Outcome(us, 400, "Error processing CSV file")
    ELSE IF ~(hasName \/ hasAge)
    THEN Outcome(us, 400, "CSV must contain Name and Age columns")
    ELSE LET r == upload_loop(to_records(table), 0,
                    [users |-> us, added |-> <<>>, invalid |-> <<>>,
                     raised |-> FALSE])
         IN  IF r.raised
             THEN Outcome(r.users, 500, "")
             ELSE [Outcome(r.users, 201, "")
                     EXCEPT !.added = r.added, !.invalid = r.invalid]

\* upload_users(): POST /users/upload.  file is the state of the upload
\* ("none": no file part, "noname": empty filename, "notcsv": another
\* extension, "unparseable": pd.read_csv raises, "csv": a table was read).
upload_users(us, file, hasName, hasAge, table) ==
    IF file = "none" THEN Outcome(us, 400, "No file provided")
    ELSE IF file = "noname" THEN Outcome(us, 400, "No file selected")
    ELSE IF file = "notcsv" THEN Outcome(us, 400, "File must be a CSV")
    ELSE IF file = "unparseable" THEN Outcome(us, 400, "Error processing CSV file")
    ELSE IF ~(hasName /\ hasAge)
    THEN Outcome(us, 400, "CSV must contain Name and Age columns")
    ELSE LET r == upload_loop(to_records(table), 0,
                    [users |-> us, added |-> <<>>, invalid |-> <<>>,
                     raised |-> FALSE])
         IN  IF r.raised
             THEN Outcome(r.users, 500, "")
             ELSE [Outcome(r.users, 201, "")
                     EXCEPT !.added = r.added, !.invalid = r.invalid]

\* ------------------------------------------------------------------ average

\* df['Name'].str[0].str.upper()
Group(u) == upper(u.Name[1])

\* the mean cut to two decimals instead of rounded
RoundMean_floor(sum, cnt) == (100 * sum) \div cnt

\* round(2) of the float sum / cnt, in hundredths: the nearest hundredth,
\* a tie going to the even one
RoundMean(sum, cnt) ==
    LET q == (100 * sum) \div cnt
        r == (100 * sum) % cnt
    IN  IF 2 * r < cnt THEN q
        ELSE IF 2 * r > cnt THEN q + 1
        ELSE IF q % 2 = 0 THEN q ELSE q + 1

\* groupby('Group')['Age']: one pass over the rows, accumulating the sum and
\* the count of each group; acc is a set of [group, sum, cnt]
RECURSIVE groupby(_, _, _)
groupby(us, i, acc) ==
    IF i > Len(us) THEN acc
    ELSE LET g == Group(us[i])
         IN  IF \E e \in acc : e.group = g
             THEN LET e == CHOOSE x \in acc : x.group = g
                  IN  groupby(us, i + 1,
                        (acc \ {e}) \cup
                          {[group |-> g, sum |-> e.sum + us[i].Age, cnt |-> e.cnt + 1]})
             ELSE groupby(us, i + 1,
                    acc \cup {[group |-> g, sum |-> us[i].Age, cnt |-> 1]})

\* get_average_age_by_group(): GET /users/average-age; the means are in
\* hundredths
get_average_age_by_group(us) ==
    IF us = <<>>
    THEN Outcome(us, 404, "No users found")
    ELSE [Outcome(us, 200, "") EXCEPT !.avg =
            {[group |-> e.group, mean |-> RoundMean(e.sum, e.cnt)] :
                e \in groupby(us, 1, {})}]

\* ------------------------------------------------------------------ inputs

Al == <<"A", "l">>
Bo == <<"B", "o">>
am == <<"a", "m">>
Am == <<"A", "m">>

\* the Name values of the JSON bodies sent to POST /users
NameInputs ==
    {StrV(Al), StrV(Bo), StrV(<<" ", "A", "l", " ">>), StrV(<<>>), StrV(<<" ">>),
     Null, IntV(5)}

\* the Age values of the JSON bodies sent to POST /users
AgeInputs ==
    {Null, IntV(0), IntV(1), IntV(20), IntV(25), IntV(120), IntV(121),
     FloatV(300, 10), FloatV(305, 10),
     StrV(<<"3", "0">>), StrV(<<"3", "0", ".", "0">>), StrV(<<"a", "b", "c">>),
     ListV}

\* the <name> path segments sent to DELETE /users/<name>
DeletePaths == {Al, Bo, <<" ", "A", "l", " ">>, <<"a", "l">>}

\* the data rows of the uploaded CSV files, as text fields
CsvRows ==
    {[Name |-> Al, Age |-> <<"2", "0">>],
     [Name |-> <<" ", "A", "l", " ">>, Age |-> <<"2", "5">>],
     [Name |-> Bo, Age |-> <<"3", "0", ".", "0">>],
     [Name |-> Bo, Age |-> <<"a", "b", "c">>],
     [Name |-> <<>>, Age |-> <<"1", "2", "1">>],
     [Name |-> Bo, Age |-> <<>>]}

Tables == UNION {[1..k -> CsvRows] : k \in 0..MaxRows}

FileStates == {"none", "noname", "notcsv", "unparseable", "csv"}

\* the request a handler was called with
Request(data, path, file, hasName, hasAge, table) ==
    [data |-> data, path |-> path, file |-> file,
     hasName |-> hasName, hasAge |-> hasAge, table |-> table]

NoRequest == Request(NoData, <<>>, "none", FALSE, FALSE, <<>>)

\* the last request served: the handler, the collection before it, the
\* request and the outcome
Served(op, pre, req, out) == [op |-> op, pre |-> pre, req |-> req, out |-> out]

\* no response is waiting to be sent
NoneServed == Served("none", <<>>, NoRequest, Outcome(<<>>, 0, ""))

\* ------------------------------------------------------------------ sequential

\* the locals of a handler that is not running
NoLocals == [recs |-> <<>>, idx |-> 0, name |-> <<>>, age |-> 0, added |-> 0]

ConcIdle ==
    /\ pc = [t \in {1, 2} |-> "idle"]
    /\ loc = [t \in {1, 2} |-> NoLocals]
    /\ readPartial = FALSE
    /\ interleaved = FALSE

\* users = [] at import time (app.py line 9)
Init ==
    /\ users = <<>>
    /\ last = NoneServed
    /\ ConcIdle

\* One request at a time: a handler runs once the previous response is sent.
Idle == last = NoneServed

Serve(op, req, out) ==
    /\ users' = out.users
    /\ last' = Served(op, users, req, out)
    /\ UNCHANGED concVars

CreateUser ==
    /\ Idle
    /\ \E data \in {NoData} \cup {Body(n, a) : n \in NameInputs, a \in AgeInputs} :
        Serve("create", [NoRequest EXCEPT !.data = data], create_user(users, data))

DeleteUser ==
    /\ Idle
    /\ \E path \in DeletePaths :
        Serve("delete", [NoRequest EXCEPT !.path = path], delete_user(users, path))

GetUsers ==
    /\ Idle
    /\ Serve("list", NoRequest, get_users(users))

\* a request that fails before a table is read
UploadNoTable ==
    /\ Idle
    /\ \E file \in FileStates \ {"csv"} :
        Serve("upload", Request(NoData, <<>>, file, TRUE, TRUE, <<>>),
              upload_users(users, file, TRUE, TRUE, <<>>))

\* a request whose file was read as a table of two columns, which are or are
\* not headed Name and Age
UploadUsers ==
    /\ Idle
    /\ \E hasName \in BOOLEAN, hasAge \in BOOLEAN, table \in Tables :
        Serve("upload", Request(NoData, <<>>, "csv", hasName, hasAge, table),
              upload_users(users, "csv", hasName, hasAge, table))

GetAverageAge ==
    /\ Idle
    /\ Serve("average", NoRequest, get_average_age_by_group(users))

\* the response leaves the server; the collection stays as the handler left it
Respond ==
    /\ last # NoneServed
    /\ last' = NoneServed
    /\ UNCHANGED <<users, concVars>>

Next ==
    \/ CreateUser \/ DeleteUser \/ GetUsers \/ UploadNoTable \/ UploadUsers
    \/ GetAverageAge \/ Respond

Spec == Init /\ [][Next]_vars

\* ------------------------------------------------------------------ aggregator alone

AvgNames == {Al, am, Am, Bo}
AvgAges == {1, 20, 25, 30, 120}

Unique(us) == \A i, j \in 1..Len(us) : i # j => us[i].Name # us[j].Name

\* the collections create and upload can build: valid records, unique names
AvgCollections ==
    {us \in UNION {[1..k -> [Name : AvgNames, Age : AvgAges]] : k \in 0..MaxAvgUsers} :
        Unique(us)}

InitAvg ==
    /\ users \in AvgCollections
    /\ last = NoneServed
    /\ ConcIdle

NextAvg == GetAverageAge \/ Respond

SpecAvg == InitAvg /\ [][NextAvg]_vars

\* ------------------------------------------------------------------ concurrent

\* Requests served by two threads of the server with no lock around the
\* handlers: a thread can be preempted between the duplicate check and the
\* append, and between two rows of an upload.
Threads == {1, 2}

ConcBodies ==
    {Body(StrV(Al), IntV(20)), Body(StrV(Bo), IntV(25)), Body(StrV(<<>>), IntV(20))}

ConcTables ==
    {<<[Name |-> Al, Age |-> <<"2", "0">>], [Name |-> Bo, Age |-> <<"2", "0">>]>>,
     <<[Name |-> Bo, Age |-> <<"a", "b", "c">>],
       [Name |-> Bo, Age |-> <<"3", "0", ".", "0">>]>>}

InitConc == Init

\* thread u has appended a row of its upload and is about to append another
PartialApplied(u) == pc[u] = "u_append" /\ loc[u].added >= 1

OthersPartial(t) == \E u \in Threads \ {t} : PartialApplied(u)

\* create_user up to the duplicate check (app.py lines 77-90)
CBegin(t) ==
    /\ pc[t] = "idle"
    /\ \E data \in ConcBodies :
        LET v == validate_user_data(data.Name, data.Age)
        IN  IF v.is_valid /\ IntOf(data.Age).ok
            THEN /\ pc' = [pc EXCEPT ![t] = "c_check"]
                 /\ loc' = [loc EXCEPT ![t].name = strip(data.Name.s),
                                       ![t].age = IntOf(data.Age).n]
            ELSE /\ pc' = pc
                 /\ loc' = loc
    /\ UNCHANGED <<users, last, readPartial, interleaved>>

\* if user_exists(name) (app.py lines 93-94)
CCheck(t) ==
    /\ pc[t] = "c_check"
    /\ IF user_exists(users, loc[t].name)
       THEN /\ pc' = [pc EXCEPT ![t] = "idle"]
            /\ loc' = [loc EXCEPT ![t] = NoLocals]
       ELSE /\ pc' = [pc EXCEPT ![t] = "c_append"]
            /\ loc' = loc
    /\ UNCHANGED <<users, last, readPartial, interleaved>>

\* users.append(user) (app.py lines 96-98)
CAppend(t) ==
    /\ pc[t] = "c_append"
    /\ Len(users) < MaxConcUsers
    /\ users' = Append(users, [Name |-> loc[t].name, Age |-> loc[t].age])
    /\ pc' = [pc EXCEPT ![t] = "idle"]
    /\ loc' = [loc EXCEPT ![t] = NoLocals]
    /\ interleaved' = (interleaved \/ OthersPartial(t))
    /\ UNCHANGED <<last, readPartial>>

\* upload_users up to the loop (app.py lines 176-200)
UBegin(t) ==
    /\ pc[t] = "idle"
    /\ \E table \in ConcTables :
        loc' = [loc EXCEPT ![t].recs = to_records(table), ![t].idx = 0,
                           ![t].added = 0]
    /\ pc' = [pc EXCEPT ![t] = "u_row"]
    /\ UNCHANGED <<users, last, readPartial, interleaved>>

\* one row up to its duplicate check (app.py lines 202-218), or the end of
\* the loop (lines 225-234); an exception ends the request
URow(t) ==
    /\ pc[t] = "u_row"
    /\ IF loc[t].idx >= Len(loc[t].recs)
       THEN /\ pc' = [pc EXCEPT ![t] = "idle"]
            /\ loc' = [loc EXCEPT ![t] = NoLocals]
       ELSE LET user == loc[t].recs[loc[t].idx + 1]
                v == validate_user_data(user.Name, user.Age)
            IN  IF v.raised \/ (v.is_valid /\ ~IntOf(user.Age).ok)
                THEN /\ pc' = [pc EXCEPT ![t] = "idle"]
                     /\ loc' = [loc EXCEPT ![t] = NoLocals]
                ELSE IF ~v.is_valid \/ user_exists(users, strip(user.Name.s))
                THEN /\ pc' = pc
                     /\ loc' = [loc EXCEPT ![t].idx = @ + 1]
                ELSE /\ pc' = [pc EXCEPT ![t] = "u_append"]
                     /\ loc' = [loc EXCEPT ![t].name = strip(user.Name.s),
                                           ![t].age = IntOf(user.Age).n]
    /\ UNCHANGED <<users, last, readPartial, interleaved>>

\* users.append(valid_user) (app.py lines 221-223)
UAppend(t) ==
    /\ pc[t] = "u_append"
    /\ Len(users) < MaxConcUsers
    /\ users' = Append(users, [Name |-> loc[t].name, Age |-> loc[t].age])
    /\ loc' = [loc EXCEPT ![t].idx = @ + 1, ![t].added = @ + 1]
    /\ pc' = [pc EXCEPT ![t] = "u_row"]
    /\ interleaved' = (interleaved \/ OthersPartial(t))
    /\ UNCHANGED <<last, readPartial>>

\* delete_user (app.py lines 119-123), taken as one step
CDelete(t) ==
    /\ pc[t] = "idle"
    /\ \E path \in {Al, Bo} :
        /\ user_exists(users, path)
        /\ users' = delete_user(users, path).users
    /\ interleaved' = (interleaved \/ OthersPartial(t))
    /\ UNCHANGED <<last, pc, loc, readPartial>>

\* get_users or get_average_age_by_group reading the collection (app.py
\* lines 152 and 258-261)
CRead(t) ==
    /\ pc[t] = "idle"
    /\ readPartial' = (readPartial \/ OthersPartial(t))
    /\ UNCHANGED <<users, last, pc, loc, interleaved>>

NextConc ==
    \E t \in Threads :
        \/ CBegin(t) \/ CCheck(t) \/ CAppend(t)
        \/ UBegin(t) \/ URow(t) \/ UAppend(t)
        \/ CDelete(t) \/ CRead(t)

SpecConc == InitConc /\ [][NextConc]_vars

\* ------------------------------------------------------------------ claims

\* What the claims say, stated apart from the handlers.

\* a record of us is named n
HasName(us, n) == \E i \in 1..Len(us) : us[i].Name = n

\* s without its leading and trailing whitespace
Trimmed(s) ==
    LET inked == {i \in 1..Len(s) : s[i] \notin Whitespace}
    IN  IF inked = {} THEN <<>>
        ELSE SubSeq(s, CHOOSE i \in inked : \A j \in inked : i <= j,
                       CHOOSE i \in inked : \A j \in inked : j <= i)

\* us without its k-th record
Without(us, k) == SubSeq(us, 1, k - 1) \o SubSeq(us, k + 1, Len(us))

Numeric(age) ==
    \/ age.t \in {"int", "float"}
    \/ age.t = "str" /\ FloatOfText(age.s).ok

Whole(age) == FloatOf(age).n % FloatOf(age).d = 0

WholeValue(age) == FloatOf(age).n \div FloatOf(age).d

\* the reason of the first failing check, "" when every check passes
ExpectedReason(name, age) ==
    IF name.t # "str" \/ Trimmed(name.s) = <<>> THEN "Name cannot be empty"
    ELSE IF age.t = "null" THEN "Age cannot be empty"
    ELSE IF ~Numeric(age) THEN "Age must be a number"
    ELSE IF ~Whole(age) THEN "Age must be an integer"
    ELSE IF WholeValue(age) \notin 1..120 THEN "Age must be between 1 and 120"
    ELSE ""

IsCreate == last.op = "create" /\ last.req.data.present
reqName == last.req.data.Name
reqAge == last.req.data.Age

\* an upload that passed its wholesale preconditions
IsImport ==
    /\ last.op = "upload"
    /\ last.req.file = "csv"
    /\ last.req.hasName
    /\ last.req.hasAge

\* C1: after any sequence of create, delete and bulk-import requests served
\* one at a time from the empty collection, no two records have the same Name.
C1_NamesUnique == Unique(users)

\* an upload that skipped a duplicate row and left two records
C1_Witness ==
    /\ IsImport
    /\ Len(users) = 2
    /\ \E k \in 1..Len(last.out.invalid) :
          last.out.invalid[k].error = "User already exists"

\* C2: every create whose (name, age) passes the validator's checks (age an
\* integer, a float or a numeric string with a whole value in 1..120) and
\* whose trimmed name is new answers 201, appends exactly the record
\* {trimmed name, integer age}, and the list that follows returns it with a
\* count one greater.
C2_CreateSucceeds ==
    (/\ IsCreate
     /\ ExpectedReason(reqName, reqAge) = ""
     /\ ~HasName(last.pre, Trimmed(reqName.s)))
    => LET rec == [Name |-> Trimmed(reqName.s), Age |-> WholeValue(reqAge)]
       IN  /\ last.out.status = 201
           /\ users = Append(last.pre, rec)
           /\ get_users(users).data = Append(last.pre, rec)
           /\ get_users(users).count = Len(last.pre) + 1

C4_FirstFailingReason ==
    /\ IsCreate =>
        LET v == validate_user_data(reqName, reqAge)
        IN  /\ ~v.raised
            /\ v.error = ExpectedReason(reqName, reqAge)
            /\ v.is_valid = (ExpectedReason(reqName, reqAge) = "")
            /\ ~v.is_valid =>
                (/\ users = last.pre
                 /\ last.out.status = 400
                 /\ last.out.error = v.error)
    /\ IsImport =>
        LET recs == to_records(last.req.table)
            passing == {i \in 1..Len(recs) :
                          ExpectedReason(recs[i].Name, recs[i].Age) = ""}
        IN  Len(users) - Len(last.pre) <= Cardinality(passing)
    /\ validate_user_data(StrV(Al), IntV(0)).error = "Age must be between 1 and 120"
    /\ validate_user_data(StrV(Al), IntV(121)).error = "Age must be between 1 and 120"
    /\ validate_user_data(StrV(Al), IntV(1)).is_valid
    /\ validate_user_data(StrV(Al), IntV(120)).is_valid
    /\ validate_user_data(StrV(Al), FloatV(305, 10)).error = "Age must be an integer"
    /\ validate_user_data(StrV(Al), StrV(<<"a", "b", "c">>)).error
          = "Age must be a number"
    /\ validate_user_data(StrV(<<" ">>), IntV(0)).error = "Name cannot be empty"

\* C5: delete(name) with a record whose Name equals name exactly answers 200
\* and removes that one record, the others staying in their order; with no
\* such record it answers 404 'User not found' and changes nothing.
C5_DeleteExact ==
    last.op = "delete" =>
        LET hits == {i \in 1..Len(last.pre) : last.pre[i].Name = last.req.path}
        IN  IF hits = {}
            THEN /\ last.out.status = 404
                 /\ last.out.error = "User not found"
                 /\ users = last.pre
            ELSE /\ last.out.status = 200
                 /\ \E k \in hits : users = Without(last.pre, k)

\* the first of two records is deleted and the second stays
C5_Witness ==
    /\ last.op = "delete"
    /\ Len(last.pre) = 2
    /\ last.pre[1].Name = last.req.path
    /\ users = <<last.pre[2]>>

\* C6: an upload that passed its wholesale preconditions never fails on the
\* content of a row: it answers 201, every row is in exactly one of the added
\* and the invalid list, and the collection is the one before followed by the
\* added records.
C6_ImportNeverAborts ==
    IsImport =>
        /\ last.out.status = 201
        /\ Len(last.out.added) + Len(last.out.invalid) = Len(last.req.table)
        /\ users = last.pre \o last.out.added

\* C7: in an upload a validated row whose trimmed name is already stored, or
\* was added by an earlier row of the same upload, is put in invalid_users,
\* the first valid row of a new name is added, and every invalid_users entry
\* carries the row's 1-based data position plus 1.
C7_DuplicateRows ==
    IsImport =>
        LET recs == to_records(last.req.table)
            ok(i) == ExpectedReason(recs[i].Name, recs[i].Age) = ""
            nm(i) == Trimmed(recs[i].Name.s)
            dup(j) == \/ HasName(last.pre, nm(j))
                      \/ \E i \in 1..(j - 1) : ok(i) /\ nm(i) = nm(j)
            rows == {last.out.invalid[k].row : k \in 1..Len(last.out.invalid)}
        IN  /\ \A j \in 1..Len(recs) : (ok(j) /\ dup(j)) => (j + 1) \in rows
            /\ \A j \in 1..Len(recs) :
                  (ok(j) /\ ~dup(j)) =>
                      (/\ (j + 1) \notin rows
                       /\ HasName(last.out.added, nm(j)))
            /\ \A j \in 1..Len(recs) : ~ok(j) => (j + 1) \in rows
            /\ rows \subseteq {j + 1 : j \in 1..Len(recs)}
            /\ Unique(last.out.added)

\* the members of group g in us
Members(us, g) == {i \in 1..Len(us) : upper(us[i].Name[1]) = g}

RECURSIVE AgeSum(_, _)
AgeSum(us, S) ==
    IF S = {} THEN 0
    ELSE LET i == CHOOSE x \in S : TRUE IN us[i].Age + AgeSum(us, S \ {i})

Dist(a, b) == IF a >= b THEN a - b ELSE b - a

\* C8: average-age answers 404 'No users found' exactly when the collection
\* is empty; otherwise its keys are the uppercased first characters of the
\* stored names and each value is the mean age of that group rounded to 2
\* decimals (here in hundredths); the collection is not changed.
C8_AverageByGroup ==
    last.op = "average" =>
        /\ users = last.pre
        /\ (last.pre = <<>>) <=> (last.out.status = 404)
        /\ (last.out.status = 404) => last.out.error = "No users found"
        /\ last.pre # <<>> =>
            /\ last.out.status = 200
            /\ {e.group : e \in last.out.avg}
                  = {upper(last.pre[i].Name[1]) : i \in 1..Len(last.pre)}
            /\ \A e, f \in last.out.avg : e.group = f.group => e = f
            /\ \A e \in last.out.avg :
                  LET S == Members(last.pre, e.group)
                  IN  2 * Dist(100 * AgeSum(last.pre, S), Cardinality(S) * e.mean)
                        <= Cardinality(S)

\* Alice/20, Amy/30, Bob/25 give A = 25.0 and B = 25.0
C8_Witness ==
    /\ last.op = "average"
    /\ last.pre = <<[Name |-> Al, Age |-> 20], [Name |-> am, Age |-> 30],
                    [Name |-> Bo, Age |-> 25]>>
    /\ last.out.avg = {[group |-> "A", mean |-> 2500], [group |-> "B", mean |-> 2500]}

\* C9: under concurrent dispatch every mutating request takes effect as one
\* step: names stay unique, no read sees an upload with only some of its rows
\* applied, and no other mutation takes effect between two rows of an upload.
C9_Serialized ==
    /\ Unique(users)
    /\ ~readPartial
    /\ ~interleaved

\* C10: an upload whose table lacks the Name or the Age column answers 400
\* with the missing-columns error and leaves the collection as it was,
\* whatever its rows hold.
C10_MissingColumns ==
    (/\ last.op = "upload"
     /\ last.req.file = "csv"
     /\ ~(last.req.hasName /\ last.req.hasAge))
    => /\ last.out.status = 400
       /\ last.out.error = "CSV must contain Name and Age columns"
       /\ last.out.added = <<>>
       /\ users = last.pre

\* a table without the Age column whose first row would otherwise be added
C10_Witness ==
    /\ last.op = "upload"
    /\ last.req.file = "csv"
    /\ last.req.hasName
    /\ ~last.req.hasAge
    /\ Len(last.req.table) = 2
    /\ last.req.table[1] = [Name |-> Al, Age |-> <<"2", "0">>]
    /\ last.pre = <<>>
    /\ users = <<>>

====
